---- MODULE Spec2Model ----
(***************************************************************************)
(* LINE_DB_viewer: the database utilities (src/utils/database_utils.py),  *)
(* the timestamp conversion (src/utils/time_utils.py) and the column       *)
(* classification of the viewer (src/gui/gui_main.py) as a state machine.  *)
(*                                                                         *)
(* The storage (main database file and its "-wal" sibling) is chosen at    *)
(* Init from bounded sets and is only read.  Each utility function is one  *)
(* action computing its return value from the storage, exceptions and      *)
(* their handlers included.  SQL values are strings ("NULL" is SQL NULL /  *)
(* Python None), rows are tuples of values.                                *)
(***************************************************************************)
EXTENDS Integers, Sequences, FiniteSets, TLC

VARIABLES
    dbFile,     \* state of the main file: "valid", "notadb" or "unopenable"
    dbTables,   \* names in sqlite_master of the main file
    mainRows,   \* rows of the table of the main file, in storage order
    walFile,    \* the file <db_path>-wal: "absent", "unreadable" or "ok"
    walRows,    \* rows of the same-named table read through the -wal source
    conn,       \* the caller's (conn, cursor) pair: "none" or "open"
    ret,        \* the return of the last call
    prev,       \* the return before it, when it was the same call; else NoRet
    sysPlatform,\* the platform the interpreter runs on: "linux" or "win32"
    argValue,   \* the value handed to the timestamp conversion
    argFormat,  \* the format tag handed to it
    converted,  \* what the last conversion call handed back
    column,     \* a column of the table on display: its name and declared type
    classified, \* what is_timestamp_column said of it
    msgTable,   \* the table searched for deleted messages
    msgRows,    \* its rows, in storage order
    deleted,    \* what check_deleted_messages handed back
    view,       \* the viewer's window: tree, WAL marks, caches, status line
    disk,       \* the bytes of the main file and of its -wal and -shm siblings
    run         \* two reconciling calls in progress on the shared cursor

vars == <<dbFile, dbTables, mainRows, walFile, walRows, conn, ret, prev,
          sysPlatform, argValue, argFormat, converted,
          column, classified, msgTable, msgRows, deleted, view, disk, run>>

storage == <<dbFile, dbTables, mainRows, walFile, walRows>>

database == <<storage, conn, ret, prev>>

conversion == <<sysPlatform, argValue, argFormat, converted>>

classification == <<column, classified>>

deletion == <<msgTable, msgRows, deleted>>

viewer == <<view, disk, run>>

----------------------------------------------------------------------------
(* Bounds of the model *)

MaxMain == 2        \* rows in the main table
MaxWal == 2         \* rows in the WAL source
MaxLimit == 1       \* largest row limit passed

NULL == "NULL"

TableNames == {"ZMESSAGE", "ZMEMBER", "ZATTACH"}

\* limit: Optional[int]; <<>> is None, <<n>> is the integer n
NoLimit == <<>>
Limits == {NoLimit} \cup {<<n>> : n \in 0..MaxLimit}

BSeq(S, n) == UNION {[1..k -> S] : k \in 0..n}

----------------------------------------------------------------------------
(* The schemas of the inspected tables: PRAGMA table_info rows             *)
(* (cid, name, type, notnull, dflt_value, pk).                             *)

Col(cid, name, type, pk) ==
    [cid |-> cid, name |-> name, type |-> type, notnull |-> 0,
     dflt_value |-> NULL, pk |-> pk]

Schema(t) ==
    CASE t = "ZMESSAGE" -> <<Col(0, "Z_PK", "INTEGER", 1), Col(1, "ZTEXT", "TEXT", 0)>>
      [] t = "ZMEMBER"  -> <<Col(0, "ZCHAT", "TEXT", 1), Col(1, "ZUSER", "TEXT", 2)>>
      [] t = "ZATTACH"  -> <<Col(0, "ZTEXT", "TEXT", 0)>>
      [] t = "ZCALL"    -> <<Col(0, "Z_PK", "INTEGER", 1),
                             Col(1, "ZTIMESTAMP", "INTEGER", 0)>>
      [] t = "ZLOG"     -> <<Col(0, "ZTIMESTAMP", "INTEGER", 0)>>

\* The rows a table of each schema can hold, within the bounds
RowUniverse(t) ==
    CASE t = "ZMESSAGE" -> {<<k, p>> : k \in {"1", "2"}, p \in {"A", "B", "C"}}
      [] t = "ZMEMBER"  -> {<<"1", "1">>, <<"2", "1">>, <<"1", NULL>>}
      [] t = "ZATTACH"  -> {<<p>> : p \in {"x", "y"}}

PkPositions(t) == {i \in 1..Len(Schema(t)) : Schema(t)[i].pk > 0}

HasNull(row, positions) == \E i \in positions : row[i] = NULL

\* SQLite's PRIMARY KEY constraint: two rows agree on every key column only
\* if a key column is NULL (NULLs are distinct in a unique index)
ValidContents(t, rows) ==
    PkPositions(t) # {} =>
        \A i, j \in 1..Len(rows) :
            (i < j /\ \A p \in PkPositions(t) : rows[i][p] = rows[j][p])
                => HasNull(rows[i], PkPositions(t))

Contents(t, n) == {rows \in BSeq(RowUniverse(t), n) : ValidContents(t, rows)}

----------------------------------------------------------------------------
(* sqlite3: statements on a cursor.  A statement yields [err, rows]; err   *)
(* is "" or the sqlite3 exception class the statement raises.              *)

Ok(rows) == [err |-> "", rows |-> rows]
Err(e) == [err |-> e, rows |-> <<>>]

Take(s, n) == IF n >= Len(s) THEN s ELSE SubSeq(s, 1, n)

\* cursor.execute(f"PRAGMA table_info({table_name})"); cursor.fetchall()
\* an unknown table gives no rows and no error
PragmaTableInfo(t) ==
    IF dbFile # "valid" THEN Err("DatabaseError")
    ELSE IF t \in dbTables THEN Ok(Schema(t)) ELSE Ok(<<>>)

\* cursor.execute(f"SELECT * FROM {table_name}"); cursor.fetchall()
SelectAll(t) ==
    IF dbFile # "valid" THEN Err("DatabaseError")
    ELSE IF t \in dbTables THEN Ok(mainRows) ELSE Err("OperationalError")

\* cursor.execute(f"SELECT * FROM {table_name} LIMIT {limit}")
SelectLimit(t, n) ==
    IF dbFile # "valid" THEN Err("DatabaseError")
    ELSE IF t \in dbTables THEN Ok(Take(mainRows, n)) ELSE Err("OperationalError")

\* a variant of the count that takes in the rows of the WAL source
SelectCountWithWal(t) ==
    IF dbFile # "valid" THEN Err("DatabaseError")
    ELSE IF t \in dbTables THEN Ok(<<Len(mainRows) + Len(walRows)>>)
    ELSE Err("OperationalError")

\* cursor.execute(f"SELECT COUNT(*) FROM {table_name}"); fetchone()[0]
SelectCount(t) ==
    IF dbFile # "valid" THEN Err("DatabaseError")
    ELSE IF t \in dbTables THEN Ok(<<Len(mainRows)>>) ELSE Err("OperationalError")

----------------------------------------------------------------------------
(* Returns.  Every call leaves one record; raised is "" for a normal       *)
(* return and the exception class when the call raises to its caller.      *)

NoKeys == [keys |-> {}, idx |-> {}]

NoRet ==
    [op |-> "none", table |-> "", limit |-> NoLimit, raised |-> "",
     conn |-> "none", count |-> 0, columns |-> <<>>, rows |-> <<>>,
     wal_only_keys |-> NoKeys]

Return(op, t, limit) == [NoRet EXCEPT !.op = op, !.table = t, !.limit = limit]

----------------------------------------------------------------------------
(* connect_database *)

\* sqlite3.connect(db_path); conn.cursor()
SqliteConnect == IF dbFile = "unopenable" THEN Err("OperationalError") ELSE Ok(<<>>)

\* except Exception: print; return None, None
ConnectFailed(e) == [Return("connect", "", NoLimit) EXCEPT !.conn = "none"]

ConnectDatabase ==
    LET c == SqliteConnect
    IN  IF c.err # "" THEN ConnectFailed(c.err)
        ELSE [Return("connect", "", NoLimit) EXCEPT !.conn = "open"]

----------------------------------------------------------------------------
(* get_table_row_count *)

\* except sqlite3.Error: return 0
RowCountFailed(t, e) == [Return("count", t, NoLimit) EXCEPT !.count = 0]

GetTableRowCount(t) ==
    LET q == SelectCount(t)
    IN  IF q.err # "" THEN RowCountFailed(t, q.err)
        ELSE [Return("count", t, NoLimit) EXCEPT !.count = q.rows[1]]

----------------------------------------------------------------------------
(* get_wal_data *)

\* os.path.exists(db_path + "-wal")
WalExists == walFile # "absent"

\* sqlite3.connect(f"file:{wal_path}?mode=ro", uri=True);
\* wal_cursor.execute(f"SELECT * FROM {table_name}"); fetchall()
WalSelectAll(t) ==
    IF walFile = "unreadable" THEN Err("DatabaseError")
    ELSE IF t \in dbTables THEN Ok(walRows) ELSE Err("OperationalError")

\* a variant of the handler that lets the error out of get_wal_data
WalReadRaises(e) == Err(e)

\* except Exception: print; return []
WalReadFailed(e) == Ok(<<>>)

GetWalData(t) ==
    IF ~WalExists THEN Ok(<<>>)
    ELSE LET q == WalSelectAll(t)
         IN  IF q.err # "" THEN WalReadFailed(q.err) ELSE Ok(q.rows)

----------------------------------------------------------------------------
(* get_table_contents_with_wal *)

ColumnNames(info) == [i \in 1..Len(info) |-> info[i].name]

\* if col[5]: the pk flag is truthy
IsPk(col) == col.pk # 0

\* columns.index(name): the first position holding name
Index(columns, name) ==
    CHOOSE i \in 1..Len(columns) :
        columns[i] = name /\ \A j \in 1..(i - 1) : columns[j] # name

PkIndices(columns, pk_columns) ==
    [i \in 1..Len(pk_columns) |-> Index(columns, pk_columns[i])]

\* key = tuple(row[idx] for idx in pk_indices)
Key(row, pk_indices) == [i \in 1..Len(pk_indices) |-> row[pk_indices[i]]]

\* a variant of the key collection that misses the first main row
DbKeysOffByOne(db_data, pk_indices) ==
    {Key(db_data[i], pk_indices) : i \in 2..Len(db_data)}

\* for row in db_data: db_keys.add(key)
DbKeys(db_data, pk_indices) ==
    {Key(db_data[i], pk_indices) : i \in 1..Len(db_data)}

\* a variant of the loop body without the test "key not in db_keys"
WalStepNoCheck(acc, row, db_keys, pk_indices) ==
    LET key == Key(row, pk_indices)
    IN  [rows |-> Append(acc.rows, row), keys |-> acc.keys \cup {key}]

\* one pass of the loop "for row in wal_data"; acc is (db_data, wal_only_keys)
WalStep(acc, row, db_keys, pk_indices) ==
    LET key == Key(row, pk_indices)
    IN  IF key \notin db_keys
        THEN [rows |-> Append(acc.rows, row), keys |-> acc.keys \cup {key}]
        ELSE acc

RECURSIVE WalLoop(_, _, _, _, _)
WalLoop(acc, wal_data, i, db_keys, pk_indices) ==
    IF i > Len(wal_data) THEN acc
    ELSE WalLoop(WalStep(acc, wal_data[i], db_keys, pk_indices),
                 wal_data, i + 1, db_keys, pk_indices)

\* a variant of the branch "if pk_columns:" that puts the WAL rows first
MergeByKeyWalFirst(db_data, wal_data, pk_indices) ==
    LET db_keys == DbKeys(db_data, pk_indices)
        acc == WalLoop([rows |-> <<>>, keys |-> {}], wal_data, 1,
                       db_keys, pk_indices)
    IN  [rows |-> acc.rows \o db_data,
         wal_only_keys |-> [keys |-> acc.keys, idx |-> {}]]

\* the branch "if pk_columns:"
MergeByKey(db_data, wal_data, pk_indices) ==
    LET db_keys == DbKeys(db_data, pk_indices)
        acc == WalLoop([rows |-> db_data, keys |-> {}], wal_data, 1,
                       db_keys, pk_indices)
    IN  [rows |-> acc.rows, wal_only_keys |-> [keys |-> acc.keys, idx |-> {}]]

\* a variant of the branch "else:" that counts positions from 1
MergeNoKeyOneBased(db_data, wal_data) ==
    LET all == db_data \o wal_data
    IN  [rows |-> all,
         wal_only_keys |->
            [keys |-> {}, idx |-> (Len(all) - Len(wal_data) + 1)..Len(all)]]

\* the branch "else:"; indices are those of Python (from 0)
MergeNoKey(db_data, wal_data) ==
    LET all == db_data \o wal_data
    IN  [rows |-> all,
         wal_only_keys |->
            [keys |-> {}, idx |-> (Len(all) - Len(wal_data))..(Len(all) - 1)]]

\* a variant of the fetch that reuses the rows of the return before it
FetchMainCached(t, limit) ==
    IF ret.op = "with_wal" /\ ret.table = t /\ ret.limit = limit /\ ret.rows # <<>>
    THEN Ok(ret.rows)
    ELSE IF limit # NoLimit /\ limit[1] # 0 THEN SelectLimit(t, limit[1])
    ELSE SelectAll(t)

\* if limit: ... LIMIT {limit}  else: no LIMIT (None and 0 are falsy)
FetchMain(t, limit) ==
    IF limit # NoLimit /\ limit[1] # 0 THEN SelectLimit(t, limit[1])
    ELSE SelectAll(t)

\* except Exception: print; return [], [], set()
ContentsWithWalFailed(t, limit, e) == Return("with_wal", t, limit)

GetTableContentsWithWal(t, limit) ==
    LET info == PragmaTableInfo(t)
        columns == ColumnNames(info.rows)
        pk_columns == ColumnNames(SelectSeq(info.rows, IsPk))
        main == FetchMain(t, limit)
        wal == GetWalData(t)
        merged == IF pk_columns # <<>>
                  THEN MergeByKey(main.rows, wal.rows,
                                  PkIndices(columns, pk_columns))
                  ELSE MergeNoKey(main.rows, wal.rows)
    IN  IF info.err # "" THEN ContentsWithWalFailed(t, limit, info.err)
        ELSE IF main.err # "" THEN ContentsWithWalFailed(t, limit, main.err)
        ELSE IF wal.err # "" THEN ContentsWithWalFailed(t, limit, wal.err)
        ELSE [Return("with_wal", t, limit) EXCEPT
                !.columns = columns, !.rows = merged.rows,
                !.wal_only_keys = merged.wal_only_keys]

----------------------------------------------------------------------------
(* get_table_info: the PRAGMA rows as fetched; no try/except, an exception *)
(* of the statement reaches the caller                                     *)

GetTableInfo(t) ==
    LET info == PragmaTableInfo(t)
    IN  IF info.err # ""
        THEN [Return("table_info", t, NoLimit) EXCEPT !.raised = info.err]
        ELSE [Return("table_info", t, NoLimit) EXCEPT !.columns = info.rows]

----------------------------------------------------------------------------
(* get_table_contents (start_pk and end_pk left at None) *)

\* query += f" LIMIT {limit}" if limit is not None
FetchPlain(t, limit) ==
    IF limit # NoLimit THEN SelectLimit(t, limit[1]) ELSE SelectAll(t)

\* except sqlite3.Error: print; return [], []
ContentsFailed(t, limit, e) == Return("contents", t, limit)

GetTableContents(t, limit) ==
    LET info == PragmaTableInfo(t)
        main == FetchPlain(t, limit)
    IN  IF info.err # "" THEN ContentsFailed(t, limit, info.err)
        ELSE IF main.err # "" THEN ContentsFailed(t, limit, main.err)
        ELSE [Return("contents", t, limit) EXCEPT
                !.columns = ColumnNames(info.rows), !.rows = main.rows]

----------------------------------------------------------------------------
(* time_utils.py.  A Python int is arbitrary precision: a sign and its     *)
(* decimal digits, most significant first.  A str is a tuple of            *)
(* characters.  MARKER stands for the arrow U+27A1 that the viewer puts in *)
(* front of displayed values, ERRPREFIX for the Japanese literal           *)
(* "conversion error: " of the handlers.                                   *)

MARKER == "MARKER"
ERRPREFIX == "ConversionError: "

DigitChars == <<"0", "1", "2", "3", "4", "5", "6", "7", "8", "9">>
DigitChar(d) == DigitChars[d + 1]
IsDigit(c) == \E d \in 0..9 : DigitChars[d + 1] = c
DigitVal(c) == CHOOSE d \in 0..9 : DigitChars[d + 1] = c

RECURSIVE Trim(_)
Trim(m) == IF Len(m) > 1 /\ m[1] = 0 THEN Trim(Tail(m)) ELSE m

MkInt(neg, m) == LET t == Trim(m) IN [neg |-> neg /\ t # <<0>>, mag |-> t]

\* thousands groups to an int: Big(FALSE, <<1, 704, 34, 800>>) is 1704034800
Group(n) == <<n \div 100, (n \div 10) % 10, n % 10>>
RECURSIVE Groups(_)
Groups(gs) == IF gs = <<>> THEN <<>> ELSE Group(Head(gs)) \o Groups(Tail(gs))
Big(neg, gs) == MkInt(neg, Groups(gs))

RECURSIVE Inc(_)
Inc(m) ==
    IF m = <<>> THEN <<1>>
    ELSE LET n == Len(m)
         IN  IF m[n] < 9 THEN [m EXCEPT ![n] = m[n] + 1]
             ELSE Inc(SubSeq(m, 1, n - 1)) \o <<0>>

\* v // 10**k, rounding toward minus infinity as Python's // does
FloorDivPow10(v, k) ==
    LET n == Len(v.mag)
        q == IF n <= k THEN <<0>> ELSE SubSeq(v.mag, 1, n - k)
        inexact == \E i \in 1..n : i > n - k /\ v.mag[i] # 0
    IN  IF v.neg /\ inexact THEN MkInt(TRUE, Inc(q)) ELSE MkInt(v.neg, q)

\* sys.int_info.default_max_str_digits of CPython 3.11: str(int) and
\* int(str) raise ValueError beyond this many digits
MaxStrDigits == 4300

\* 10**k
Pow10(k) == MkInt(FALSE, [i \in 1..(k + 1) |-> IF i = 1 THEN 1 ELSE 0])

\* str(int), within the digit limit
IntStr(v) ==
    (IF v.neg THEN <<"-">> ELSE <<>>) \o [i \in 1..Len(v.mag) |-> DigitChar(v.mag[i])]

----------------------------------------------------------------------------
(* Python objects handed to the conversion: int, float, str, None, bytes   *)

Obj(type, neg, mag, chars) == [type |-> type, neg |-> neg, mag |-> mag, chars |-> chars]

PyInt(v) == Obj("int", v.neg, v.mag, <<>>)
\* a finite float of integral value below 10**16, or nan / inf / -inf
PyFloat(v) == Obj("float", v.neg, v.mag, <<>>)
PyNan == Obj("float", FALSE, <<>>, <<"n", "a", "n">>)
PyInf == Obj("float", FALSE, <<>>, <<"i", "n", "f">>)
PyStr(chars) == Obj("str", FALSE, <<>>, chars)
PyNone == Obj("NoneType", FALSE, <<>>, <<"N", "o", "n", "e">>)
PyBytes == Obj("bytes", FALSE, <<>>, <<"b", "'", "x", "'">>)

IntOf(value) == [neg |-> value.neg, mag |-> value.mag]
IsFinite(value) == value.mag # <<>>

\* str(value) raises ValueError: an int of more digits than the limit
StrRaises(value) == value.type = "int" /\ Len(value.mag) > MaxStrDigits

\* str(value)
Str(value) ==
    CASE value.type = "int" -> IntStr(IntOf(value))
      [] value.type = "float" ->
            IF IsFinite(value) THEN IntStr(IntOf(value)) \o <<".", "0">>
            ELSE value.chars
      [] OTHER -> value.chars

\* str.replace(MARKER, '')
RECURSIVE Replace(_)
Replace(chars) ==
    IF chars = <<>> THEN <<>>
    ELSE IF Head(chars) = MARKER THEN Replace(Tail(chars))
    ELSE <<Head(chars)>> \o Replace(Tail(chars))

RECURSIVE LStrip(_)
LStrip(chars) ==
    IF chars # <<>> /\ Head(chars) = " " THEN LStrip(Tail(chars)) ELSE chars

RECURSIVE RStrip(_)
RStrip(chars) ==
    IF chars # <<>> /\ chars[Len(chars)] = " "
    THEN RStrip(SubSeq(chars, 1, Len(chars) - 1)) ELSE chars

\* the digits of an int literal: digits, single underscores between them
RECURSIVE LiteralDigits(_, _)
LiteralDigits(chars, acc) ==
    IF chars = <<>> THEN acc
    ELSE IF IsDigit(Head(chars))
         THEN LiteralDigits(Tail(chars), Append(acc, DigitVal(Head(chars))))
    ELSE IF Head(chars) = "_" /\ acc # <<>> /\ Len(chars) > 1 /\ IsDigit(chars[2])
         THEN LiteralDigits(Tail(chars), acc)
    ELSE <<>>

\* int(s): [err, neg, mag]; ValueError when s is no int literal
ParseInt(chars) ==
    LET s == RStrip(LStrip(chars))
        signed == s # <<>> /\ Head(s) \in {"-", "+"}
        body == IF signed THEN Tail(s) ELSE s
        digits == LiteralDigits(body, <<>>)
    IN  IF digits = <<>> \/ Len(digits) > MaxStrDigits
        THEN [err |-> "ValueError", int |-> MkInt(FALSE, <<0>>)]
        ELSE [err |-> "", int |-> MkInt(signed /\ Head(s) = "-", digits)]

----------------------------------------------------------------------------
(* datetime.  An instant is [day, sec]: days since 1970-01-01 and seconds  *)
(* of the day.  Fractions of a second never reach the output and are       *)
(* dropped where the seconds are computed (the float rounding of the       *)
(* division is not modelled).                                              *)

Stamp(day, sec) == [day |-> day, sec |-> sec]

Fail(e) == [err |-> e, day |-> 0, sec |-> 0, chars |-> <<>>]
At(day, sec) == [err |-> "", day |-> day, sec |-> sec, chars |-> <<>>]
Text(chars) == [err |-> "", day |-> 0, sec |-> 0, chars |-> chars]

\* long division of decimal digits by the 86400 seconds of a day
RECURSIVE LongDiv(_, _, _, _)
LongDiv(m, i, q, r) ==
    IF i > Len(m) THEN <<q, r>>
    ELSE LET x == r * 10 + m[i]
         IN  LongDiv(m, i + 1, q * 10 + x \div 86400, x % 86400)

\* an int of seconds (at most 12 digits) as days and seconds of the day
DaySec(v) ==
    LET qr == LongDiv(v.mag, 1, 0, 0)
    IN  IF ~v.neg THEN Stamp(qr[1], qr[2])
        ELSE IF qr[2] = 0 THEN Stamp(-qr[1], 0)
        ELSE Stamp(-qr[1] - 1, 86400 - qr[2])

\* datetime.min .. datetime.max: 0001-01-01 .. 9999-12-31
InYears(day) == day >= -719162 /\ day <= 2932896

\* days since 1970-01-01 to (year, month, day) of the proleptic Gregorian
\* calendar
Civil(z) ==
    LET s == z + 719468
        era == s \div 146097
        doe == s - era * 146097
        yoe == (doe - doe \div 1460 + doe \div 36524 - doe \div 146096) \div 365
        doy == doe - (365 * yoe + yoe \div 4 - yoe \div 100)
        mp == (5 * doy + 2) \div 153
        d == doy - (153 * mp + 2) \div 5 + 1
        m == IF mp < 10 THEN mp + 3 ELSE mp - 9
    IN  <<yoe + era * 400 + (IF m <= 2 THEN 1 ELSE 0), m, d>>

Earlier(day, sec, day2, sec2) == day < day2 \/ (day = day2 /\ sec < sec2)

\* the summers of Japan daylight time, 1948 to 1951, as days since 1970; each
\* starts and ends at 15:00:00 UTC
TokyoSummers == {<<-7915, -7782>>, <<-7579, -7418>>, <<-7180, -7054>>, <<-6816, -6690>>}

\* pytz.timezone('Asia/Tokyo'): the UTC offset in force at a UTC instant.
\* Local mean time (9:18:59, which pytz rounds to the minute) until
\* 1887-12-31 15:00:00 UTC.
TokyoOffset(day, sec) ==
    IF Earlier(day, sec, -29951, 54000) THEN 33540
    ELSE IF \E p \in TokyoSummers :
                ~Earlier(day, sec, p[1], 54000) /\ Earlier(day, sec, p[2], 54000)
         THEN 36000
    ELSE 32400

\* dt.astimezone(pytz.timezone('Asia/Tokyo')) of a UTC instant
AsTokyo(day, sec) ==
    LET local == sec + TokyoOffset(day, sec)
        lday == day + local \div 86400
    IN  IF ~InYears(lday) THEN Fail("OverflowError")
        ELSE At(lday, local % 86400)

RECURSIVE NatStr(_)
NatStr(n) == IF n < 10 THEN <<DigitChar(n)>> ELSE NatStr(n \div 10) \o <<DigitChar(n % 10)>>

TwoDigits(n) == <<DigitChar(n \div 10), DigitChar(n % 10)>>

\* %Y: glibc prints the year unpadded, the Windows C runtime in four digits
YearStr(y, platform) ==
    IF platform = "win32" /\ y < 1000
    THEN <<DigitChar(0)>> \o (IF y < 100 THEN <<DigitChar(0)>> ELSE <<>>)
            \o (IF y < 10 THEN <<DigitChar(0)>> ELSE <<>>) \o NatStr(y)
    ELSE NatStr(y)

\* strftime('%Y-%m-%d %H:%M:%S')
Strftime(day, sec, platform) ==
    LET ymd == Civil(day)
    IN  YearStr(ymd[1], platform) \o <<"-">> \o TwoDigits(ymd[2]) \o <<"-">>
            \o TwoDigits(ymd[3]) \o <<" ">> \o TwoDigits(sec \div 3600) \o <<":">>
            \o TwoDigits((sec % 3600) \div 60) \o <<":">> \o TwoDigits(sec % 60)

\* |m| <= |c| for digit tuples without leading zeros
RECURSIVE LexLeq(_, _)
LexLeq(m, c) ==
    IF m = <<>> THEN TRUE
    ELSE IF Head(m) # Head(c) THEN Head(m) < Head(c)
    ELSE LexLeq(Tail(m), Tail(c))

MagLeq(m, c) == Len(m) < Len(c) \/ (Len(m) = Len(c) /\ LexLeq(m, c))

\* round(v / 10) to the nearest int, ties to even: the microseconds of a
\* count of 100 ns ticks (the float error of the division, which can break
\* a tie either way, is not modelled)
RoundDiv10(v) ==
    LET n == Len(v.mag)
        q == IF n = 1 THEN <<0>> ELSE SubSeq(v.mag, 1, n - 1)
        r == v.mag[n]
        up == r > 5 \/ (r = 5 /\ q[Len(q)] % 2 = 1)
    IN  MkInt(v.neg, IF up THEN Inc(q) ELSE q)

\* the whole seconds of value / 1000, of value / 1000000 and of
\* (value * 100) / 1000000000; timedelta rounds to the microsecond first
Seconds(value, unit) ==
    CASE unit = "ms" -> FloorDivPow10(IntOf(value), 3)
      [] unit = "us" -> FloorDivPow10(IntOf(value), 6)
      [] unit = "100ns" -> FloorDivPow10(RoundDiv10(IntOf(value)), 6)

\* the seconds gmtime of glibc can break down (the year fits a C int), and
\* those a 64-bit time_t can hold
GmtimeOk(s) ==
    IF s.neg THEN MagLeq(s.mag, Big(FALSE, <<67, 768, 40, 609, 740, 800>>).mag)
    ELSE MagLeq(s.mag, Big(FALSE, <<67, 768, 36, 191, 676, 799>>).mag)

TimeTOk(s) == MagLeq(s.mag, Big(FALSE, <<9, 223, 372, 36, 854, 775, 807>>).mag)

\* datetime.fromtimestamp(seconds, tz=pytz.UTC), seconds = value / 1000.
\* The Windows C runtime refuses instants before 1970 and after 3000.
FromTimestamp(value, platform) ==
    IF ~IsFinite(value)
    THEN Fail(IF value = PyNan THEN "ValueError" ELSE "OverflowError")
    ELSE LET s == Seconds(value, "ms")
         IN  IF ~TimeTOk(s) THEN Fail("OverflowError")
             ELSE IF platform = "win32" /\ s.neg THEN Fail("OSError")
             ELSE IF ~GmtimeOk(s) THEN Fail("OSError")
             ELSE IF Len(s.mag) > 12 THEN Fail("ValueError")
             ELSE LET t == DaySec(s)
                  IN  IF platform = "win32" /\ t.day >= 376565 THEN Fail("OSError")
                      ELSE IF ~InYears(t.day) THEN Fail("ValueError")
                      ELSE At(t.day, t.sec)

\* epoch + timedelta(seconds=...), epoch a day since 1970
EpochPlus(epoch, value, unit) ==
    IF ~IsFinite(value)
    THEN Fail(IF value = PyNan THEN "ValueError" ELSE "OverflowError")
    ELSE LET s == Seconds(value, unit)
         IN  IF Len(s.mag) > 12 THEN Fail("OverflowError")
             ELSE LET t == DaySec(s)
                  IN  IF ~InYears(epoch + t.day) THEN Fail("OverflowError")
                      ELSE At(epoch + t.day, t.sec)

\* ....astimezone(pytz.timezone('Asia/Tokyo')).strftime('%Y-%m-%d %H:%M:%S')
TokyoText(utc, platform) ==
    IF utc.err # "" THEN utc
    ELSE LET jst == AsTokyo(utc.day, utc.sec)
         IN  IF jst.err # "" THEN jst
             ELSE Text(Strftime(jst.day, jst.sec, platform))

\* what a conversion hands back: raised is "" unless it raises to its caller
Returned(chars) == [raised |-> "", value |-> chars]
Raised(e) == [raised |-> e, value |-> <<>>]

----------------------------------------------------------------------------
(* unix_micro_to_jst *)

\* except Exception as e: return the error text
JstFailed(e) == Returned(<<ERRPREFIX, e>>)

\* unix_milli / 1000 are the seconds
UnixMicroToJst(unix_milli, platform) ==
    LET r == TokyoText(FromTimestamp(unix_milli, platform), platform)
    IN  IF r.err # "" THEN JstFailed(r.err) ELSE Returned(r.chars)

----------------------------------------------------------------------------
(* convert_timestamp *)

\* the outer "except Exception as e": return the error text
ConvertFailed(e) == Returned(<<ERRPREFIX, e>>)

\* a variant of the inner handler that returns the text without the marker
ParseFailedStripped(value, e) ==
    IF e \in {"ValueError", "TypeError"} THEN Returned(Replace(Str(value)))
    ELSE ConvertFailed(e)

\* the inner "except (ValueError, TypeError): return str(value)"
ParseFailed(value, e) ==
    IF e \in {"ValueError", "TypeError"} THEN Returned(Str(value))
    ELSE ConvertFailed(e)

\* the branches MAC, WEBKIT, FILETIME and COCOA
FromEpoch(epoch, value, unit, platform) ==
    LET r == TokyoText(EpochPlus(epoch, value, unit), platform)
    IN  IF r.err # "" THEN ConvertFailed(r.err) ELSE Returned(r.chars)

\* the branch UNIX: str(value), inside the try
Unix(value) ==
    IF StrRaises(value) THEN ConvertFailed("ValueError") ELSE Returned(Str(value))

\* str(value // 1000000); for a float, inf // x is nan
UnixSec(value) ==
    IF value.type = "float"
    THEN IF IsFinite(value)
         THEN Returned(IntStr(FloorDivPow10(IntOf(value), 6)) \o <<".", "0">>)
         ELSE Returned(PyNan.chars)
    ELSE LET q == PyInt(FloorDivPow10(IntOf(value), 6))
         IN  IF StrRaises(q) THEN ConvertFailed("ValueError") ELSE Returned(Str(q))

\* no branch matched: the last line, "return str(value)", after the try
FinalReturn(value) ==
    IF StrRaises(value) THEN Raised("ValueError") ELSE Returned(Str(value))

\* a variant of the chain whose branch JST takes value for microseconds
DispatchJstMicro(value, format_type, platform) ==
    CASE format_type = "JST" ->
            UnixMicroToJst(PyInt(FloorDivPow10(IntOf(value), 3)), platform)
      [] format_type = "UNIX" -> Unix(value)
      [] format_type = "UNIX_SEC" -> UnixSec(value)
      [] format_type = "MAC" -> FromEpoch(11323, value, "us", platform)
      [] format_type = "WEBKIT" -> FromEpoch(-134774, value, "us", platform)
      [] format_type = "FILETIME" -> FromEpoch(-134774, value, "100ns", platform)
      [] format_type = "COCOA" -> FromEpoch(11323, value, "us", platform)
      [] OTHER -> FinalReturn(value)

\* the if / elif chain on format_type, value numeric
Dispatch(value, format_type, platform) ==
    CASE format_type = "JST" -> UnixMicroToJst(value, platform)
      [] format_type = "UNIX" -> Unix(value)
      [] format_type = "UNIX_SEC" -> UnixSec(value)
      [] format_type = "MAC" -> FromEpoch(11323, value, "us", platform)
      [] format_type = "WEBKIT" -> FromEpoch(-134774, value, "us", platform)
      [] format_type = "FILETIME" -> FromEpoch(-134774, value, "100ns", platform)
      [] format_type = "COCOA" -> FromEpoch(11323, value, "us", platform)
      [] OTHER -> FinalReturn(value)

ConvertTimestamp(value, format_type, platform) ==
    IF value.type \in {"int", "float"} THEN Dispatch(value, format_type, platform)
    ELSE LET p == ParseInt(Replace(Str(value)))
         IN  IF p.err # "" THEN ParseFailed(value, p.err)
             ELSE Dispatch(PyInt(p.int), format_type, platform)

----------------------------------------------------------------------------
(* gui_main.py, LineDBViewer.is_timestamp_column.  A column name is a str, *)
(* a tuple of characters; names are ASCII.                                 *)

LowerCase == <<"a", "b", "c", "d", "e", "f", "g", "h", "i", "j", "k", "l", "m", "n", "o", "p", "q", "r", "s", "t", "u", "v", "w", "x", "y", "z">>
UpperCase == <<"A", "B", "C", "D", "E", "F", "G", "H", "I", "J", "K", "L", "M", "N", "O", "P", "Q", "R", "S", "T", "U", "V", "W", "X", "Y", "Z">>

\* one character of str.upper()
UpperChar(c) ==
    IF \E i \in 1..Len(LowerCase) : LowerCase[i] = c
    THEN UpperCase[CHOOSE i \in 1..Len(LowerCase) : LowerCase[i] = c]
    ELSE c

\* a variant of upper() that leaves the name as it is
UpperAsIs(chars) == chars

\* column_name.upper()
Upper(chars) == [i \in 1..Len(chars) |-> UpperChar(chars[i])]

\* keyword in text: text has keyword as a substring
In(keyword, text) ==
    \E i \in 0..(Len(text) - Len(keyword)) :
        SubSeq(text, i + 1, i + Len(keyword)) = keyword

\* the list timestamp_keywords
TimestampKeywords ==
    <<<<"T", "I", "M", "E", "S", "T", "A", "M", "P">>,
      <<"T", "I", "M", "E">>,
      <<"D", "A", "T", "E">>,
      <<"C", "R", "E", "A", "T", "E", "D">>,
      <<"M", "O", "D", "I", "F", "I", "E", "D">>,
      <<"U", "P", "D", "A", "T", "E", "D">>,
      <<"L", "A", "S", "T", "_", "U", "P", "D", "A", "T", "E", "D">>,
      <<"L", "A", "S", "T", "_", "M", "O", "D", "I", "F", "I", "E", "D">>,
      <<"C", "R", "E", "A", "T", "E", "_", "T", "I", "M", "E">>,
      <<"U", "P", "D", "A", "T", "E", "_", "T", "I", "M", "E">>,
      <<"M", "O", "D", "_", "T", "I", "M", "E">>,
      <<"Z", "_", "T", "I", "M", "E", "S", "T", "A", "M", "P">>,
      <<"Z", "L", "A", "S", "T", "U", "P", "D", "A", "T", "E">>,
      <<"Z", "L", "A", "S", "T", "M", "O", "D", "I", "F", "I", "E", "D">>,
      <<"Z", "C", "R", "E", "A", "T", "E", "D", "A", "T">>,
      <<"Z", "U", "P", "D", "A", "T", "E", "D", "A", "T">>,
      <<"D", "A", "T", "E", "T", "I", "M", "E">>,
      <<"P", "O", "S", "T", "E", "D", "_", "A", "T">>,
      <<"S", "E", "N", "T", "_", "A", "T">>,
      <<"R", "E", "C", "E", "I", "V", "E", "D", "_", "A", "T">>,
      <<"D", "E", "L", "I", "V", "E", "R", "E", "D", "_", "A", "T">>,
      <<"R", "E", "A", "D", "_", "A", "T">>,
      <<"A", "C", "C", "E", "S", "S", "E", "D", "_", "A", "T">>,
      <<"L", "O", "G", "G", "E", "D", "_", "A", "T">>,
      <<"B", "I", "R", "T", "H">>,
      <<"D", "E", "A", "T", "H">>,
      <<"S", "T", "A", "R", "T">>,
      <<"E", "N", "D">>,
      <<"E", "X", "P", "I", "R", "E">>,
      <<"D", "E", "A", "D", "L", "I", "N", "E">>>>

\* any(keyword in column_name.upper() for keyword in timestamp_keywords)
IsTimestampColumn(column_name) ==
    \E i \in 1..Len(TimestampKeywords) : In(TimestampKeywords[i], Upper(column_name))

\* the column names on display: a prefix, a stem and a suffix
NamePrefixes == {<<>>, <<"Z">>, <<"z", "_">>, <<"x">>}
NameStems ==
    {<<"T", "E", "X", "T">>,
     <<"t", "e", "x", "t">>,
     <<"L", "A", "S", "T", "M", "O", "D", "I", "F", "I", "E", "D">>,
     <<"c", "r", "e", "a", "t", "e", "d", "_", "a", "t">>,
     <<"C", "r", "e", "a", "t", "e", "d">>,
     <<"T", "I", "M">>,
     <<"t", "i", "m">>,
     <<"D", "A", "T">>,
     <<"d", "a", "t", "e">>,
     <<"F", "R", "I", "E", "N", "D">>,
     <<"e", "n">>,
     <<"S", "E", "N", "T", "_", "A">>,
     <<"s", "e", "n", "t", "_", "a", "t">>,
     <<"P", "K">>,
     <<"O", "P", "T">>,
     <<"B", "i", "r", "t", "h">>,
     <<"s", "t", "a", "r">>,
     <<"d", "e", "a", "d", "l", "i", "n">>,
     <<"e", "x", "p", "i", "r">>,
     <<"U", "p", "D", "a", "T", "e", "D">>}
NameSuffixes == {<<>>, <<"E">>, <<"_", "i", "d">>}
DisplayedNames ==
    {p \o m \o x : p \in NamePrefixes, m \in NameStems, x \in NameSuffixes}
DeclaredTypes == {"INTEGER", "TEXT", "TIMESTAMP"}

NoColumn == [name |-> <<>>, type |-> ""]
NotClassified == [done |-> FALSE, result |-> FALSE]

----------------------------------------------------------------------------
(* database_utils.py, check_deleted_messages.  A row of the searched table *)
(* is a record of its columns; a value is <<>> for NULL and <<v>> else.    *)

MaxMsg == 3

\* the rows a table with the columns of a message table can hold: Z_PK is
\* the rowid, so row i of the storage has Z_PK i
MsgRow(pk, ts, text, opt) ==
    [Z_PK |-> pk, ZTIMESTAMP |-> ts, ZTEXT |-> text, Z_OPT |-> opt]

MsgContents ==
    UNION {[1..n -> [ZTIMESTAMP : {<<>>, <<10>>, <<20>>}, ZTEXT : {<<>>, <<"a">>},
                     Z_OPT : {<<>>, <<0>>, <<1>>}]] : n \in 0..MaxMsg}

MsgRows(f) ==
    [i \in 1..Len(f) |-> MsgRow(<<i>>, f[i].ZTIMESTAMP, f[i].ZTEXT, f[i].Z_OPT)]

\* a variant of the WHERE clause without "AND ZTEXT IS NOT NULL"
WhereDeletedAnyText(row) == row.Z_OPT = <<1>>

\* WHERE Z_OPT = 1 AND ZTEXT IS NOT NULL
WhereDeleted(row) == row.Z_OPT = <<1>> /\ row.ZTEXT # <<>>

\* SELECT ZTIMESTAMP, ZTEXT, Z_PK
SelectTriple(row) == <<row.ZTIMESTAMP, row.ZTEXT, row.Z_PK>>

\* ORDER BY ZTIMESTAMP DESC: a may come before b; NULL sorts below every
\* value, the order of rows that tie is not determined
DescOrder(a, b) ==
    \/ b = <<>>
    \/ a # <<>> /\ a[1] >= b[1]

\* the orders in which the statement can yield the rows that match: the
\* arrangements of their positions that respect the ORDER BY
DeletedOrders(rows) ==
    LET hits == {i \in 1..Len(rows) : WhereDeleted(rows[i])}
        n == Cardinality(hits)
    IN  {o \in [1..n -> hits] :
            /\ \A i, j \in 1..n : i # j => o[i] # o[j]
            /\ \A i \in 1..(n - 1) :
                  DescOrder(rows[o[i]].ZTIMESTAMP, rows[o[i + 1]].ZTIMESTAMP)}

\* cursor.execute(...); cursor.fetchall(): the results the statement can
\* give, [err, rows]
SelectDeleted ==
    IF msgTable = "absent" THEN {Err("OperationalError")}
    ELSE IF msgTable = "other" THEN {Err("OperationalError")}
    ELSE {Ok([i \in 1..Len(o) |-> SelectTriple(msgRows[o[i]])]) :
            o \in DeletedOrders(msgRows)}

\* except sqlite3.Error: print; return []
DeletedFailed(e) == [raised |-> "", rows |-> <<>>]

\* the ways check_deleted_messages can end: what it raises and what it returns
CheckDeletedMessages ==
    {IF q.err # "" THEN DeletedFailed(q.err)
                   ELSE [raised |-> "", rows |-> q.rows] : q \in SelectDeleted}

NotSearched == [done |-> FALSE, raised |-> "", rows |-> <<>>]

----------------------------------------------------------------------------
(* gui_main.py: the table view.  The tables on view hold a timestamp       *)
(* column, whose stored values are Python objects; the tree shows texts    *)
(* and hands texts back.  Positions are counted from 1 here; actual_index  *)
(* is the position from 0 as in the code.                                  *)

\* THRESHOLD = 10000 in on_table_select, scaled to the tables of the model
THRESHOLD == 1

ViewTables == {"ZCALL", "ZLOG"}

\* the values a ZTIMESTAMP cell holds: 1704034800000, which the viewer
\* shows as 2024-01-01 00:00:00 under "JST", and NULL
StoredTimes == {PyInt(Big(FALSE, <<1, 704, 34, 800, 0>>)), PyNone}

ViewUniverse(t) ==
    CASE t = "ZCALL" -> {<<k, v>> : k \in {"1", "2"}, v \in StoredTimes}
      [] t = "ZLOG"  -> {<<v>> : v \in StoredTimes}

\* the entries of TimeFormatMenu that are tried
MenuFormats == {"JST", "UNIX_microsecond", "UNIX_second"}

\* the column names of the tables on view, by their characters
ViewColumns ==
    [ZTIMESTAMP |-> <<"Z", "T", "I", "M", "E", "S", "T", "A", "M", "P">>,
     Z_PK |-> <<"Z", "_", "P", "K">>]

\* the columns that self.is_timestamp_column(col) takes for timestamps
TimeColumns == {c \in DOMAIN ViewColumns : IsTimestampColumn(ViewColumns[c])}

TimeColumn(col) == col \in TimeColumns

\* self.time_display_modes.get(col, "JST")
Mode(modes, col) == IF col \in DOMAIN modes THEN modes[col] ELSE "JST"

\* self.tree.item(item)['values'][i]: ttk hands back int(text) when the
\* text reads as an int, and the text otherwise
TreeValue(text) ==
    LET p == ParseInt(text)
    IN  IF p.err = "" THEN PyInt(p.int) ELSE PyStr(text)

\* try: converted_row[j] = c  except Exception: pass
OrAsIs(c, value) == IF c.raised # "" THEN Str(value) ELSE c.value

\* converted_row[j] of on_table_select as the tree shows it: always under
\* "JST"; None is left alone, and so is a value whose conversion raises
ShownCell(col, value) ==
    IF ~TimeColumn(col) THEN value
    ELSE IF value = PyNone \/ StrRaises(value) THEN Str(value)
    ELSE OrAsIs(ConvertTimestamp(value, "JST", sysPlatform), value)

\* timestamp_columns of one row: (j, str(value)) for its timestamp cells
Originals(columns, row) ==
    {<<j, Str(row[j])>> :
        j \in {k \in 1..Len(columns) :
                 TimeColumn(columns[k]) /\ row[k] # PyNone /\ ~StrRaises(row[k])}}

\* row_tags.  "actual_index in self.wal_records": the set holds key tuples
\* for a table with a primary key and positions otherwise, and a position
\* equals no tuple
RowTags(actual_index, wal_records) ==
    {IF actual_index % 2 = 0 THEN "evenrow" ELSE "oddrow"}
        \cup (IF actual_index \in wal_records.idx THEN {"wal_record"} ELSE {})

NoView ==
    [table |-> "", total_rows |-> 0, limit |-> NoLimit,
     columns |-> <<>>, items |-> <<>>, wal_records |-> NoKeys,
     original_values_cache |-> {}, time_display_modes |-> <<>>,
     status |-> [rows |-> 0, wal |-> 0, total |-> <<>>]]

\* on_table_select from the line after the fetch, r being what
\* get_table_contents_with_wal returned.  The cache holds (item, j, text).
ShowTable(v, t, total_rows, limit, r) ==
    LET begun == [v EXCEPT !.table = t, !.total_rows = total_rows,
                           !.limit = limit, !.original_values_cache = {},
                           !.wal_records = r.wal_only_keys]
    IN  IF r.columns = <<>> \/ r.rows = <<>> THEN begun
        ELSE [begun EXCEPT
                !.columns = r.columns,
                !.items =
                    [i \in 1..Len(r.rows) |->
                        [values |-> [j \in 1..Len(r.columns) |->
                                        ShownCell(r.columns[j], r.rows[i][j])],
                         tags |-> RowTags(i - 1, r.wal_only_keys)]],
                !.original_values_cache =
                    UNION {{<<i>> \o o : o \in Originals(r.columns, r.rows[i])} :
                             i \in 1..Len(r.rows)},
                !.status =
                    [rows |-> Len(r.rows),
                     wal |-> Cardinality(r.wal_only_keys.keys)
                                + Cardinality(r.wal_only_keys.idx),
                     total |-> IF limit # NoLimit /\ limit[1] # 0
                                     /\ total_rows > limit[1]
                               THEN <<total_rows>> ELSE <<>>]]

\* on_table_select for the selected table t; response answers the question
\* asked for a table above THRESHOLD
OnTableSelect(v, t, response) ==
    LET total_rows == GetTableRowCount(t).count
        limit == IF total_rows > THRESHOLD /\ response # "yes"
                 THEN <<THRESHOLD>> ELSE NoLimit
    IN  ShowTable(v, t, total_rows, limit, GetTableContentsWithWal(t, limit))

\* the values _refresh_tree_data computes for one item, each with the
\* exception its conversion raises
RefreshValues(columns, values, modes) ==
    [j \in 1..Len(columns) |->
        IF TimeColumn(columns[j])
        THEN ConvertTimestamp(TreeValue(values[j]), Mode(modes, columns[j]),
                              sysPlatform)
        ELSE Returned(values[j])]

\* the loop of _refresh_tree_data, r[i] being the values computed for item
\* i: the items are rewritten in order, up to the first one that raises
Rewritten(items, columns, r) ==
    LET raises == {i \in 1..Len(items) :
                     \E j \in 1..Len(columns) : r[i][j].raised # ""}
    IN  [i \in 1..Len(items) |->
            IF \E k \in raises : k <= i THEN items[i]
            ELSE [items[i] EXCEPT
                    !.values = [j \in 1..Len(columns) |-> r[i][j].value]]]

RefreshTreeData(items, columns, modes) ==
    Rewritten(items, columns,
              [i \in 1..Len(items) |->
                  RefreshValues(columns, items[i].values, modes)])

\* _on_time_format_change
OnTimeFormatChange(v, column_name, format_type) ==
    LET modes == [c \in (DOMAIN v.time_display_modes) \cup {column_name} |->
                    IF c = column_name THEN format_type
                    ELSE v.time_display_modes[c]]
    IN  [v EXCEPT !.time_display_modes = modes,
                  !.items = RefreshTreeData(v.items, v.columns, modes)]

----------------------------------------------------------------------------
(* The files under the viewer.  sqlite3.connect(db_path) opens the main    *)
(* file for reading and writing; SQLite treats the file <db_path>-wal as   *)
(* the write-ahead log of the main file, whatever it holds.                *)
(*   main: "missing", "empty" (no bytes), "database" (a database as it was *)
(*         found), "checkpointed" (a log's pages written into it),         *)
(*         "garbage"                                                       *)
(*   journal: the journal mode in the header of main, "delete" or "wal"    *)
(*   wal:  "absent", "empty", "database" (a SQLite database, the form that *)
(*         get_wal_data reads), "log" (a write-ahead log with frames),     *)
(*         "garbage"                                                       *)
(*   shm:  the file <db_path>-shm exists                                   *)

NoDisk == [main |-> "missing", journal |-> "delete", wal |-> "absent", shm |-> FALSE]

\* sqlite3.connect(db_path): a missing file is created
Connected(d) == IF d.main = "missing" THEN [d EXCEPT !.main = "empty"] ELSE d

\* cursor.execute(...) on the main connection: the first statement opens
\* the log.  An empty main file has its log removed; a main file in WAL
\* mode has a log made.
Executed(d) ==
    IF d.shm \/ d.main = "missing" THEN d
    ELSE IF d.main = "empty"
    THEN [d EXCEPT !.wal = IF d.wal = "empty" THEN "empty" ELSE "absent"]
    ELSE IF d.wal \in {"database", "log", "garbage"} THEN [d EXCEPT !.shm = TRUE]
    ELSE IF d.main = "garbage" \/ d.journal = "delete" THEN d
    ELSE [d EXCEPT !.wal = "empty", !.shm = TRUE]

\* conn.close() of the last connection: the opened log is checkpointed
\* into the main file and removed.  A log next to a main file in rollback
\* mode may carry the header page or not.
Closed(d) ==
    IF ~d.shm THEN {d}
    ELSE {[d EXCEPT !.main = IF d.wal = "log" THEN "checkpointed" ELSE d.main,
                    !.journal = j, !.wal = "absent", !.shm = FALSE] :
            j \in IF d.wal = "log" THEN {d.journal, "wal"} ELSE {d.journal}}

\* what the viewer calls on its cursor, each a SELECT or PRAGMA statement
ReadCalls ==
    {"get_all_tables", "get_table_info", "get_table_row_count",
     "get_table_contents", "get_table_contents_with_wal",
     "check_deleted_messages", "export_to_excel"}

----------------------------------------------------------------------------
(* get_table_contents_with_wal step by step: two calls in progress on the  *)
(* viewer's one cursor.  A call holds its arguments, the line it stands    *)
(* at (pc) and its local variables; out is its return.  mixed records that *)
(* a call took a step while the other one stood between its own steps.     *)

NoRun == [cursor |-> "", calls |-> <<>>, mixed |-> FALSE]

NewCall(t, limit) ==
    [pc |-> "schema", table |-> t, limit |-> limit, columns |-> <<>>,
     pk_columns |-> <<>>, db_data |-> <<>>, wal_data |-> <<>>, out |-> NoRet]

\* "except Exception" reached from a step: the call returns [], [], set()
CallFailed(c, e) ==
    [c EXCEPT !.pc = "done",
              !.out = ContentsWithWalFailed(c.table, c.limit, e)]

\* a variant in which db_data is one list shared by the calls
StoredShared(r, p, c) ==
    [r EXCEPT !.calls = [q \in DOMAIN r.calls |->
                            IF q = p THEN c
                            ELSE [r.calls[q] EXCEPT !.db_data = c.db_data]],
              !.mixed = r.mixed \/ r.calls[3 - p].pc \in {"main", "wal", "merge"}]

\* the locals of call p after a step; those of the other call are its own
Stored(r, p, c) ==
    [r EXCEPT !.calls[p] = c,
              !.mixed = r.mixed \/ r.calls[3 - p].pc \in {"main", "wal", "merge"}]

----------------------------------------------------------------------------
(* The values and format tags the conversions are applied to *)

Formats ==
    {"JST", "UNIX", "UNIX_SEC", "MAC", "WEBKIT", "FILETIME", "COCOA",
     "UNIX_microsecond", "UNIX_millisecond", "UNIX_second", "CHROME",
     "FIREFOX", "UTC", "GMT", "Asia/Tokyo", "US/Pacific"}

IntValues ==
    {Big(FALSE, <<0>>), Big(FALSE, <<1>>), Big(TRUE, <<1>>),
     Big(FALSE, <<999, 999>>), Big(FALSE, <<1, 0, 0>>), Big(TRUE, <<1, 0, 0>>),
     Big(TRUE, <<1, 500, 0>>),
     Big(FALSE, <<1, 704, 34, 800>>),
     Big(FALSE, <<1, 704, 34, 800, 0>>),
     Big(FALSE, <<1, 704, 34, 800, 0, 0>>),
     Big(FALSE, <<725, 727, 600, 0, 0>>),
     Big(FALSE, <<13, 348, 508, 400, 0, 0>>),
     Big(FALSE, <<133, 485, 84, 0, 0, 0>>),
     Big(TRUE, <<678, 585, 600, 0>>),
     Big(TRUE, <<62, 135, 596, 800, 0>>), Big(TRUE, <<62, 135, 596, 800, 1>>),
     Big(FALSE, <<253, 402, 268, 399, 999>>), Big(FALSE, <<253, 402, 268, 400, 0>>),
     Big(FALSE, <<9, 223, 372, 36, 854, 775, 807>>),
     Big(TRUE, <<9, 223, 372, 36, 854, 775, 808>>),
     Pow10(MaxStrDigits - 1), Pow10(MaxStrDigits)}

StrValues ==
    {<<>>, <<"a", "b", "c">>, <<"1", "2", "a">>, <<" ", "1", "2", " ">>,
     <<"-", "5">>, <<"1", "_", "0", "0", "0">>,
     IntStr(Big(FALSE, <<1, 704, 34, 800, 0>>)),
     <<MARKER>> \o IntStr(Big(FALSE, <<1, 704, 34, 800, 0>>)),
     <<MARKER, "a">>,
     <<"2", "0", "2", "4", "-", "0", "1", "-", "0", "1", " ",
       "0", "0", ":", "0", "0", ":", "0", "0">>}

Values ==
    {PyInt(v) : v \in IntValues} \cup {PyStr(c) : c \in StrValues}
        \cup {PyFloat(Big(FALSE, <<1, 704, 34, 800, 0>>)), PyNan, PyInf, PyNone, PyBytes}

NoOut == [fn |-> "none", raised |-> "", value |-> <<>>]

Out(fn, r) == [fn |-> fn, raised |-> r.raised, value |-> r.value]

----------------------------------------------------------------------------
(* The state machine *)

Init ==
    /\ dbFile \in {"valid", "notadb", "unopenable"}
    /\ dbTables \in IF dbFile = "valid"
                    THEN {{}} \cup {{t} : t \in TableNames} ELSE {{}}
    /\ mainRows \in IF dbTables = {} THEN {<<>>}
                    ELSE UNION {Contents(t, MaxMain) : t \in dbTables}
    /\ walFile \in IF dbTables = {} THEN {"absent"}
                   ELSE {"absent", "unreadable", "ok"}
    /\ walRows \in IF walFile # "ok" THEN {<<>>}
                   ELSE UNION {Contents(t, MaxWal) : t \in dbTables}
    /\ conn = "none"
    /\ ret = NoRet
    /\ prev = NoRet
    /\ sysPlatform = "linux"
    /\ argValue = PyNone
    /\ argFormat = "JST"
    /\ converted = NoOut
    /\ column = NoColumn
    /\ classified = NotClassified
    /\ msgTable = "absent" /\ msgRows = <<>> /\ deleted = NotSearched
    /\ view = NoView /\ disk = NoDisk /\ run = NoRun

\* the return before this one, kept when it was the same call
SameCall(r) ==
    IF ret.op = r.op /\ ret.table = r.table /\ ret.limit = r.limit
    THEN ret ELSE NoRet

Connect ==
    /\ ret' = ConnectDatabase
    /\ conn' = ret'.conn
    /\ prev' = NoRet
    /\ UNCHANGED <<storage, conversion, classification, deletion, viewer>>

CallRowCount(t) ==
    /\ conn = "open"
    /\ ret' = GetTableRowCount(t)
    /\ prev' = NoRet
    /\ UNCHANGED <<storage, conn, conversion, classification, deletion, viewer>>

CallContents(t, limit) ==
    /\ conn = "open"
    /\ ret' = GetTableContents(t, limit)
    /\ prev' = NoRet
    /\ UNCHANGED <<storage, conn, conversion, classification, deletion, viewer>>

CallContentsWithWal(t, limit) ==
    /\ conn = "open"
    /\ ret' = GetTableContentsWithWal(t, limit)
    /\ prev' = SameCall(ret')
    /\ UNCHANGED <<storage, conn, conversion, classification, deletion, viewer>>

CallTableInfo(t) ==
    /\ conn = "open"
    /\ ret' = GetTableInfo(t)
    /\ prev' = NoRet
    /\ UNCHANGED <<storage, conn, conversion, classification, deletion, viewer>>

Next ==
    \/ Connect
    \/ \E t \in TableNames : CallTableInfo(t)
    \/ \E t \in TableNames : CallRowCount(t)
    \/ \E t \in TableNames, limit \in Limits : CallContents(t, limit)
    \/ \E t \in TableNames, limit \in Limits : CallContentsWithWal(t, limit)

Spec == Init /\ [][Next]_vars

----------------------------------------------------------------------------
(* The conversions applied to one value under one format tag *)

InitConv ==
    /\ dbFile = "valid" /\ dbTables = {} /\ mainRows = <<>>
    /\ walFile = "absent" /\ walRows = <<>>
    /\ conn = "none" /\ ret = NoRet /\ prev = NoRet
    /\ sysPlatform \in {"linux", "win32"}
    /\ argValue \in Values
    /\ argFormat \in Formats
    /\ converted = NoOut
    /\ column = NoColumn
    /\ classified = NotClassified
    /\ msgTable = "absent" /\ msgRows = <<>> /\ deleted = NotSearched
    /\ view = NoView /\ disk = NoDisk /\ run = NoRun

CallConvertTimestamp ==
    /\ converted' = Out("convert_timestamp",
                        ConvertTimestamp(argValue, argFormat, sysPlatform))
    /\ UNCHANGED <<database, sysPlatform, argValue, argFormat, classification, deletion, viewer>>

CallUnixMicroToJst ==
    /\ argValue.type \in {"int", "float"}
    /\ converted' = Out("unix_micro_to_jst", UnixMicroToJst(argValue, sysPlatform))
    /\ UNCHANGED <<database, sysPlatform, argValue, argFormat, classification, deletion, viewer>>

NextConv == CallConvertTimestamp \/ CallUnixMicroToJst

SpecConv == InitConv /\ [][NextConv]_vars

----------------------------------------------------------------------------
(* Vocabulary of the properties, stated on the storage and the return      *)

Min(a, b) == IF a <= b THEN a ELSE b

Range(s) == {s[i] : i \in 1..Len(s)}

HasPk(t) == PkPositions(t) # {}

\* the primary-key tuple of a row: its values at the key columns, in
\* ordinal order
PkTuple(t, row) ==
    LET P == PkPositions(t)
    IN  [k \in 1..Cardinality(P) |->
            row[CHOOSE p \in P : Cardinality({q \in P : q < p}) = k - 1]]

\* get_table_contents_with_wal returned for a table of the catalog
Reconciled == ret.op = "with_wal" /\ dbFile = "valid" /\ ret.table \in dbTables

\* a positive row limit was passed
Limited == ret.limit # NoLimit /\ ret.limit[1] > 0

\* the main rows the call fetched: all of them, or the first L
NFetched == IF Limited THEN Min(ret.limit[1], Len(mainRows)) ELSE Len(mainRows)
Fetched == SubSeq(mainRows, 1, NFetched)
FetchedKeys == {PkTuple(ret.table, Fetched[j]) : j \in 1..NFetched}
MainKeys == {PkTuple(ret.table, mainRows[j]) : j \in 1..Len(mainRows)}

\* the rows the WAL source yields
WalSource == IF walFile = "ok" THEN walRows ELSE <<>>

NewToFetched(w) == PkTuple(ret.table, w) \notin FetchedKeys
NewToMain(w) == PkTuple(ret.table, w) \notin MainKeys

\* how many rows of the result carry the key k
RowsWithKey(k) ==
    Cardinality({i \in 1..Len(ret.rows) : PkTuple(ret.table, ret.rows[i]) = k})

----------------------------------------------------------------------------
(* C1: WAL precedence.  For a table with primary-key columns the result is  *)
(* the fetched main rows, unchanged, followed by exactly the WAL rows whose *)
(* key tuple is absent from the fetched main rows; a WAL row whose key      *)
(* collides with a fetched main row is not in the result, and              *)
(* wal_only_keys is the set of the appended keys.                          *)
C1_WalPrecedence ==
    (Reconciled /\ HasPk(ret.table)) =>
        /\ ret.rows = Fetched \o SelectSeq(WalSource, NewToFetched)
        /\ \A k \in FetchedKeys :
              RowsWithKey(k) =
                Cardinality({j \in 1..NFetched : PkTuple(ret.table, Fetched[j]) = k})
        /\ ret.wal_only_keys.keys =
              {PkTuple(ret.table, w) : w \in {x \in Range(WalSource) : NewToFetched(x)}}
        /\ ret.wal_only_keys.idx = {}

\* main {1:'A'}, WAL {1:'B', 2:'C'} gives rows {1:'A', 2:'C'}, keys {(2,)}
C1_Witness ==
    /\ Reconciled /\ ret.table = "ZMESSAGE"
    /\ mainRows = << <<"1", "A">> >>
    /\ WalSource = << <<"1", "B">>, <<"2", "C">> >>
    /\ ret.rows = << <<"1", "A">>, <<"2", "C">> >>
    /\ ret.wal_only_keys.keys = { <<"2">> }

----------------------------------------------------------------------------
(* C2: every element of wal_only_keys corresponds to exactly one row of    *)
(* rows, and that row came from the WAL source and was absent from the     *)
(* fetched main rows.                                                      *)
C2_ExactlyOneRowPerKey ==
    Reconciled =>
        /\ \A k \in ret.wal_only_keys.keys :
              /\ RowsWithKey(k) = 1
              /\ k \notin FetchedKeys
              /\ \E w \in Range(WalSource) : PkTuple(ret.table, w) = k
        /\ \A i \in ret.wal_only_keys.idx :
              /\ i >= NFetched /\ i < Len(ret.rows)
              /\ ret.rows[i + 1] = WalSource[i + 1 - NFetched]

----------------------------------------------------------------------------
(* C3: rows fetched from the main source are never classified WAL-only.    *)
(* With primary-key columns wal_only_keys is disjoint from the key tuples  *)
(* of the fetched main rows; without, no index below the number of fetched *)
(* main rows is in wal_only_keys.                                          *)
C3_MainNeverWalOnly ==
    Reconciled =>
        /\ HasPk(ret.table) => ret.wal_only_keys.keys \cap FetchedKeys = {}
        /\ ~HasPk(ret.table) => \A i \in ret.wal_only_keys.idx : i >= NFetched

\* the WAL holds a row whose key collides with a fetched main row, and
\* another that is marked WAL-only
C3_Witness ==
    /\ Reconciled /\ HasPk(ret.table)
    /\ \E w \in Range(WalSource) : ~NewToFetched(w)
    /\ ret.wal_only_keys.keys # {}

----------------------------------------------------------------------------
(* C4: for a positive row_limit L, a main table of m rows and a WAL with k *)
(* rows whose keys are new to the main table, the result has exactly       *)
(* min(L, m) + k rows.                                                     *)
C4_LimitBoundsMainOnly ==
    (Reconciled /\ HasPk(ret.table) /\ Limited) =>
        Len(ret.rows) =
            Min(ret.limit[1], Len(mainRows))
            + Cardinality({i \in 1..Len(WalSource) : NewToMain(WalSource[i])})

----------------------------------------------------------------------------
(* C5: without primary-key columns every WAL row is appended after the     *)
(* fetched main rows, and wal_only_keys is the set of the positions        *)
(* (counted from 0) of the appended rows, n .. n+w-1.                      *)
C5_NoPkFallback ==
    (Reconciled /\ ~HasPk(ret.table)) =>
        /\ ret.rows = Fetched \o WalSource
        /\ ret.wal_only_keys.idx = NFetched..(NFetched + Len(WalSource) - 1)
        /\ ret.wal_only_keys.keys = {}

\* main [('x',)], WAL [('y',)] gives rows [('x',), ('y',)] and {1}
C5_Witness ==
    /\ Reconciled /\ ret.table = "ZATTACH"
    /\ mainRows = << <<"x">> >> /\ WalSource = << <<"y">> >>
    /\ ret.rows = << <<"x">>, <<"y">> >>
    /\ ret.wal_only_keys.idx = {1}

----------------------------------------------------------------------------
(* C6: when the -wal file does not exist or cannot be read, the call on a  *)
(* table of the catalog completes normally and returns the column names,   *)
(* exactly the fetched main rows and an empty wal_only_keys.               *)
C6_WalOptional ==
    (Reconciled /\ walFile \in {"absent", "unreadable"}) =>
        /\ ret.raised = ""
        /\ ret.columns = ColumnNames(Schema(ret.table))
        /\ ret.rows = Fetched
        /\ ret.wal_only_keys = NoKeys

\* an unreadable -wal file next to a main table with rows
C6_Witness ==
    /\ Reconciled /\ walFile = "unreadable"
    /\ ret.rows # <<>> /\ ret.rows = Fetched

----------------------------------------------------------------------------
----------------------------------------------------------------------------
(* C8: a call for a table name that is not in the catalog fails with       *)
(* SchemaError; it does not return an ordinary, possibly empty, result.    *)
C8_AbsentTableSchemaError ==
    (ret.op \in {"with_wal", "contents"} /\ dbFile = "valid"
        /\ ret.table \notin dbTables) => ret.raised = "SchemaError"

----------------------------------------------------------------------------
(* C9: a failed connection or a failed query reaches the caller as a typed *)
(* failure, not as a normal-looking value.                                 *)
Failure ==
    \/ ret.op = "connect" /\ dbFile = "unopenable"
    \/ ret.op \in {"count", "contents", "with_wal"}
        /\ (dbFile # "valid" \/ ret.table \notin dbTables)

C9_FailuresPropagate == Failure => ret.raised # ""

----------------------------------------------------------------------------
(* C10: convert_timestamp is total.  For every format tag, recognised or   *)
(* not, and every value (any int, negative and zero included, and any      *)
(* value that is no number) it returns a string and never raises; a        *)
(* conversion that fails gives the text of the error or str(value).        *)
C10_ConvertTotal ==
    converted.fn = "convert_timestamp" =>
        /\ converted.raised = ""
        /\ \/ converted.value # <<>> /\ Head(converted.value) = ERRPREFIX
           \/ \A i \in 1..Len(converted.value) : converted.value[i] # ERRPREFIX

----------------------------------------------------------------------------
(* The classification of one column of the table on display *)

InitClassify ==
    /\ dbFile = "valid" /\ dbTables = {} /\ mainRows = <<>>
    /\ walFile = "absent" /\ walRows = <<>>
    /\ conn = "none" /\ ret = NoRet /\ prev = NoRet
    /\ sysPlatform = "linux" /\ argValue = PyNone /\ argFormat = "JST"
    /\ converted = NoOut
    /\ column \in [name : DisplayedNames, type : DeclaredTypes]
    /\ classified = NotClassified
    /\ msgTable = "absent" /\ msgRows = <<>> /\ deleted = NotSearched
    /\ view = NoView /\ disk = NoDisk /\ run = NoRun

CallIsTimestampColumn ==
    /\ classified' = [done |-> TRUE, result |-> IsTimestampColumn(column.name)]
    /\ UNCHANGED <<database, conversion, column, deletion, viewer>>

NextClassify == CallIsTimestampColumn

SpecClassify == InitClassify /\ [][NextClassify]_vars

----------------------------------------------------------------------------
(* The search for deleted messages in one table *)

InitDeleted ==
    /\ dbFile = "valid" /\ dbTables = {} /\ mainRows = <<>>
    /\ walFile = "absent" /\ walRows = <<>>
    /\ conn = "open" /\ ret = NoRet /\ prev = NoRet
    /\ sysPlatform = "linux" /\ argValue = PyNone /\ argFormat = "JST"
    /\ converted = NoOut
    /\ column = NoColumn /\ classified = NotClassified
    /\ msgTable \in {"absent", "other", "messages"}
    /\ msgRows \in IF msgTable = "messages"
                   THEN {MsgRows(f) : f \in MsgContents} ELSE {<<>>}
    /\ deleted = NotSearched
    /\ view = NoView /\ disk = NoDisk /\ run = NoRun

CallCheckDeletedMessages ==
    /\ conn = "open"
    /\ \E r \in CheckDeletedMessages :
          deleted' = [done |-> TRUE, raised |-> r.raised, rows |-> r.rows]
    /\ UNCHANGED <<database, conversion, classification, msgTable, msgRows, viewer>>

NextDeleted == CallCheckDeletedMessages

SpecDeleted == InitDeleted /\ [][NextDeleted]_vars

----------------------------------------------------------------------------
(* The viewer's window on a connected database holding one of the tables   *)
(* on view; the other table's load fails                                   *)

InitView ==
    /\ dbFile = "valid"
    /\ dbTables \in {{t} : t \in ViewTables}
    /\ mainRows \in UNION {{rows \in BSeq(ViewUniverse(t), MaxMain) :
                              ValidContents(t, rows)} : t \in dbTables}
    /\ walFile \in {"absent", "ok"}
    /\ walRows \in IF walFile # "ok" THEN {<<>>}
                   ELSE UNION {{rows \in BSeq(ViewUniverse(t), MaxWal) :
                                  ValidContents(t, rows)} : t \in dbTables}
    /\ conn = "open" /\ ret = NoRet /\ prev = NoRet
    /\ sysPlatform = "linux" /\ argValue = PyNone /\ argFormat = "JST"
    /\ converted = NoOut
    /\ column = NoColumn /\ classified = NotClassified
    /\ msgTable = "absent" /\ msgRows = <<>> /\ deleted = NotSearched
    /\ view = NoView /\ disk = NoDisk /\ run = NoRun

SelectTable(t, response) ==
    /\ view' = OnTableSelect(view, t, response)
    /\ UNCHANGED <<database, conversion, classification, deletion, disk, run>>

ChangeTimeFormat(column_name, format_type) ==
    /\ \E j \in 1..Len(view.columns) : view.columns[j] = column_name
    /\ TimeColumn(column_name)
    /\ view' = OnTimeFormatChange(view, column_name, format_type)
    /\ UNCHANGED <<database, conversion, classification, deletion, disk, run>>

NextView ==
    \/ \E t \in ViewTables, response \in {"yes", "no"} : SelectTable(t, response)
    \/ \E c \in DOMAIN ViewColumns, f \in MenuFormats : ChangeTimeFormat(c, f)

SpecView == InitView /\ [][NextView]_vars

----------------------------------------------------------------------------
(* The viewer on the files of one database path: it connects, reads,       *)
(* connects anew and is closed.  ret.op names the call made last.          *)

InitFiles ==
    /\ dbFile = "valid" /\ dbTables = {} /\ mainRows = <<>>
    /\ walFile = "absent" /\ walRows = <<>>
    /\ conn = "none" /\ ret = NoRet /\ prev = NoRet
    /\ sysPlatform = "linux" /\ argValue = PyNone /\ argFormat = "JST"
    /\ converted = NoOut
    /\ column = NoColumn /\ classified = NotClassified
    /\ msgTable = "absent" /\ msgRows = <<>> /\ deleted = NotSearched
    /\ view = NoView /\ run = NoRun
    /\ disk \in {d \in [main : {"missing", "empty", "database", "garbage"},
                        journal : {"delete", "wal"},
                        wal : {"absent", "empty", "database", "log", "garbage"},
                        shm : {FALSE}] :
                   d.journal = "wal" => d.main = "database"}

\* gui_main.py connect_database(db_path): the connection held is closed, a
\* new one is made and the tables are listed and counted
OpenDatabase ==
    /\ \E c \in (IF conn = "open" THEN Closed(disk) ELSE {disk}) :
          disk' = Executed(Connected(c))
    /\ conn' = "open"
    /\ ret' = Return("connect_database", "", NoLimit)
    /\ UNCHANGED <<storage, prev, conversion, classification, deletion, view, run>>

\* any of the reading calls on the viewer's cursor; get_wal_data opens the
\* -wal file with mode=ro and leaves the files as they are
ReadDatabase(call) ==
    /\ conn = "open"
    /\ disk' = Executed(disk)
    /\ ret' = Return(call, "", NoLimit)
    /\ UNCHANGED <<storage, conn, prev, conversion, classification, deletion, view, run>>

\* __del__: the connection is closed
CloseViewer ==
    /\ conn = "open"
    /\ disk' \in Closed(disk)
    /\ conn' = "none"
    /\ ret' = Return("__del__", "", NoLimit)
    /\ UNCHANGED <<storage, prev, conversion, classification, deletion, view, run>>

NextFiles ==
    \/ OpenDatabase
    \/ \E call \in ReadCalls : ReadDatabase(call)
    \/ CloseViewer

SpecFiles == InitFiles /\ [][NextFiles]_vars

----------------------------------------------------------------------------
(* Two calls of get_table_contents_with_wal taking their steps in any      *)
(* order on the same cursor                                                *)

InitRun ==
    /\ dbFile = "valid"
    /\ dbTables \in {{"ZMESSAGE"}, {"ZATTACH"}}
    /\ mainRows \in UNION {{rows \in Contents(t, MaxMain) :
                              \A i \in 1..Len(rows) : rows[i][Len(rows[i])] \in {"A", "x"}} :
                             t \in dbTables}
    /\ walFile \in {"absent", "ok"}
    /\ walRows \in IF walFile # "ok" THEN {<<>>}
                   ELSE UNION {{rows \in Contents(t, MaxWal) :
                                  \A i \in 1..Len(rows) : rows[i][Len(rows[i])] \in {"B", "y"}} :
                                 t \in dbTables}
    /\ conn = "open" /\ ret = NoRet /\ prev = NoRet
    /\ sysPlatform = "linux" /\ argValue = PyNone /\ argFormat = "JST"
    /\ converted = NoOut
    /\ column = NoColumn /\ classified = NotClassified
    /\ msgTable = "absent" /\ msgRows = <<>> /\ deleted = NotSearched
    /\ view = NoView /\ disk = NoDisk
    /\ run \in [cursor : {""}, mixed : {FALSE},
                calls : [1..2 -> {NewCall(t, limit) :
                                    t \in {"ZMESSAGE", "ZATTACH"}, limit \in Limits}]]

\* lines 144-149: the two PRAGMA table_info reads
ReadSchema(p) ==
    /\ run.calls[p].pc = "schema"
    /\ LET c == run.calls[p]
           info == PragmaTableInfo(c.table)
       IN  run' = [Stored(run, p,
                       IF info.err # "" THEN CallFailed(c, info.err)
                       ELSE [c EXCEPT !.pc = "main",
                                      !.columns = ColumnNames(info.rows),
                                      !.pk_columns =
                                          ColumnNames(SelectSeq(info.rows, IsPk))])
                   EXCEPT !.cursor = "PRAGMA table_info"]
    /\ UNCHANGED <<database, conversion, classification, deletion, view, disk>>

\* lines 152-156: the SELECT on the main database and its fetchall
FetchMainRows(p) ==
    /\ run.calls[p].pc = "main"
    /\ LET c == run.calls[p]
           main == FetchMain(c.table, c.limit)
       IN  run' = [Stored(run, p,
                       IF main.err # "" THEN CallFailed(c, main.err)
                       ELSE [c EXCEPT !.pc = "wal", !.db_data = main.rows])
                   EXCEPT !.cursor = "SELECT"]
    /\ UNCHANGED <<database, conversion, classification, deletion, view, disk>>

\* line 159: get_wal_data, on a connection and a cursor of its own
FetchWalRows(p) ==
    /\ run.calls[p].pc = "wal"
    /\ LET c == run.calls[p]
           wal == GetWalData(c.table)
       IN  run' = Stored(run, p,
                       IF wal.err # "" THEN CallFailed(c, wal.err)
                       ELSE [c EXCEPT !.pc = "merge", !.wal_data = wal.rows])
    /\ UNCHANGED <<database, conversion, classification, deletion, view, disk>>

\* lines 161-184: the merge and the return
MergeRows(p) ==
    /\ run.calls[p].pc = "merge"
    /\ LET c == run.calls[p]
           merged == IF c.pk_columns # <<>>
                     THEN MergeByKey(c.db_data, c.wal_data,
                                     PkIndices(c.columns, c.pk_columns))
                     ELSE MergeNoKey(c.db_data, c.wal_data)
       IN  run' = Stored(run, p,
                       [c EXCEPT !.pc = "done",
                                 !.out = [Return("with_wal", c.table, c.limit) EXCEPT
                                            !.columns = c.columns,
                                            !.rows = merged.rows,
                                            !.wal_only_keys = merged.wal_only_keys]])
    /\ UNCHANGED <<database, conversion, classification, deletion, view, disk>>

NextRun ==
    \E p \in 1..2 :
        \/ ReadSchema(p)
        \/ FetchMainRows(p)
        \/ FetchWalRows(p)
        \/ MergeRows(p)

SpecRun == InitRun /\ [][NextRun]_vars

----------------------------------------------------------------------------
(* Vocabulary of the properties of the conversions *)

\* convert_timestamp was applied to argValue under argFormat
Converted == converted.fn = "convert_timestamp"
OfInt == argValue.type = "int"

\* v * 10**k
TimesPow10(v, k) == MkInt(v.neg, v.mag \o [i \in 1..k |-> 0])

\* an int of seconds whose instant lies in the years 1970 to 9998
Renderable(s) ==
    /\ ~s.neg /\ Len(s.mag) <= 12
    /\ DaySec(s).day < 2932000

\* the instant s seconds after 1970-01-01T00:00:00 UTC, rendered at the
\* fixed offset off (in seconds) from UTC
ZoneText(s, off) ==
    LET t == DaySec(s)
        local == t.sec + off
    IN  Strftime(t.day + local \div 86400, local % 86400, sysPlatform)

\* 'YYYY-MM-DD HH:MM:SS'
IsCalendarText(chars) ==
    /\ Len(chars) = 19
    /\ chars[5] = "-" /\ chars[8] = "-" /\ chars[11] = " "
    /\ chars[14] = ":" /\ chars[17] = ":"
    /\ \A i \in (1..19) \ {5, 8, 11, 14, 17} : IsDigit(chars[i])

Jan2024 == <<"2", "0", "2", "4", "-", "0", "1", "-", "0", "1", " ", "0", "0", ":", "0", "0", ":", "0", "0">>
Epoch1601Plus9 == <<"1", "6", "0", "1", "-", "0", "1", "-", "0", "1", " ", "0", "9", ":", "0", "0", ":", "0", "0">>

----------------------------------------------------------------------------
(* C11: UNIX-seconds round trip.  For every int v of whole seconds,        *)
(* negative ones included, convert(v * 1000000, UNIX_second) is the        *)
(* decimal string of v.                                                    *)
C11_UnixSecondRoundTrip ==
    (Converted /\ OfInt /\ argFormat = "UNIX_second"
        /\ argValue = PyInt(TimesPow10(FloorDivPow10(IntOf(argValue), 6), 6))) =>
        /\ converted.raised = ""
        /\ converted.value = IntStr(FloorDivPow10(IntOf(argValue), 6))

----------------------------------------------------------------------------
(* C12: the conversion to JST takes its input for microseconds since the   *)
(* UNIX epoch: convert(x, JST) is the instant x / 1000000 seconds after    *)
(* 1970-01-01T00:00:00 UTC rendered at UTC+9, so that                      *)
(* convert(1704034800000000, JST) is '2024-01-01 00:00:00'.                *)
C12_JstFromMicroseconds ==
    (Converted /\ OfInt /\ argFormat = "JST"
        /\ Renderable(FloorDivPow10(IntOf(argValue), 6))) =>
        /\ converted.value = ZoneText(FloorDivPow10(IntOf(argValue), 6), 32400)
        /\ argValue = PyInt(Big(FALSE, <<1, 704, 34, 800, 0, 0>>)) =>
              converted.value = Jan2024

----------------------------------------------------------------------------
(* C13: unix_micro_to_jst(t) and convert_timestamp(t, 'JST') return the    *)
(* same string for every numeric t, and for t = 1704034800000 the string   *)
(* is '2024-01-01 00:00:00'.                                               *)
C13_JstIsUnixMicroToJst ==
    /\ converted.fn = "unix_micro_to_jst" =>
          /\ converted.raised = ""
          /\ Returned(converted.value) = ConvertTimestamp(argValue, "JST", sysPlatform)
    /\ (Converted /\ argFormat = "JST" /\ argValue.type \in {"int", "float"}) =>
          /\ converted.raised = ""
          /\ Returned(converted.value) = UnixMicroToJst(argValue, sysPlatform)
    /\ (argValue = PyInt(Big(FALSE, <<1, 704, 34, 800, 0>>))
            /\ (converted.fn = "unix_micro_to_jst" \/ (Converted /\ argFormat = "JST"))) =>
          converted.value = Jan2024

\* unix_micro_to_jst(1704034800000) has returned '2024-01-01 00:00:00'
C13_Witness ==
    /\ converted.fn = "unix_micro_to_jst"
    /\ argValue = PyInt(Big(FALSE, <<1, 704, 34, 800, 0>>))
    /\ converted.value = Jan2024

----------------------------------------------------------------------------
(* C14: the UNIX microsecond format returns the int unchanged as a string: *)
(* for every int x, convert(x, UNIX_microsecond) (the tag UNIX of the      *)
(* code) is the decimal string of x, without scaling or epoch shift.       *)
C14_UnixMicrosecondUnchanged ==
    (Converted /\ OfInt /\ argFormat \in {"UNIX", "UNIX_microsecond"}) =>
        /\ converted.raised = ""
        /\ converted.value = IntStr(IntOf(argValue))

----------------------------------------------------------------------------
(* C15: CHROME and FIREFOX are aliases of WEBKIT: for every int x,         *)
(* convert(x, CHROME) = convert(x, FIREFOX) = convert(x, WEBKIT).          *)
C15_ChromeFirefoxAreWebkit ==
    (Converted /\ OfInt /\ argFormat \in {"CHROME", "FIREFOX"}) =>
        [raised |-> converted.raised, value |-> converted.value]
            = ConvertTimestamp(argValue, "WEBKIT", sysPlatform)

----------------------------------------------------------------------------
(* C16: for the tags UTC, GMT and every named zone, convert returns the    *)
(* calendar string 'YYYY-MM-DD HH:MM:SS' of the instant rendered in that   *)
(* zone (UTC 9 hours behind JST), not the raw integer.                     *)
C16_ZoneTagsRenderCalendar ==
    (Converted /\ OfInt /\ Renderable(FloorDivPow10(IntOf(argValue), 6))) =>
        /\ argFormat \in {"UTC", "GMT"} =>
              converted.value = ZoneText(FloorDivPow10(IntOf(argValue), 6), 0)
        /\ argFormat = "Asia/Tokyo" =>
              converted.value = ZoneText(FloorDivPow10(IntOf(argValue), 6), 32400)
        /\ argFormat = "US/Pacific" => IsCalendarText(converted.value)

----------------------------------------------------------------------------
(* C17: FILETIME and WEBKIT share the epoch 1601-01-01T00:00:00 UTC and    *)
(* differ in the unit only: for every int x, convert(10 * x, FILETIME) =   *)
(* convert(x, WEBKIT), and convert(0, FILETIME) is 1601-01-01 00:00:00 UTC *)
(* shifted to JST (UTC+9).                                                 *)
C17_FiletimeIsTenfoldWebkit ==
    /\ (Converted /\ OfInt /\ argFormat = "WEBKIT") =>
          [raised |-> converted.raised, value |-> converted.value]
              = ConvertTimestamp(PyInt(TimesPow10(IntOf(argValue), 1)),
                                 "FILETIME", sysPlatform)
    /\ (Converted /\ argFormat = "FILETIME" /\ argValue = PyInt(Big(FALSE, <<0>>))) =>
          converted.value = Epoch1601Plus9

----------------------------------------------------------------------------
(* C18: a value that is no number has the marker stripped and the rest     *)
(* parsed as an int, which is converted as that int would be; when the     *)
(* parse fails the string form of the value is returned unchanged, marker  *)
(* included, under every tag, so that '2024-01-01 00:00:00' is a fixed     *)
(* point of convert.                                                       *)
C18_NonNumericInput ==
    (Converted /\ argValue.type \notin {"int", "float"}) =>
        LET parsed == ParseInt(Replace(Str(argValue)))
        IN  /\ parsed.err = "" =>
                  [raised |-> converted.raised, value |-> converted.value]
                      = ConvertTimestamp(PyInt(parsed.int), argFormat, sysPlatform)
            /\ parsed.err # "" =>
                  converted.raised = "" /\ converted.value = Str(argValue)
            /\ argValue = PyStr(Jan2024) => converted.value = Jan2024
            /\ argValue = PyStr(<<MARKER, "a">>) => converted.value = <<MARKER, "a">>
            /\ (argValue = PyStr(<<MARKER>> \o IntStr(Big(FALSE, <<1, 704, 34, 800, 0>>)))
                    /\ argFormat = "JST") => converted.value = Jan2024

\* a marked text that does not parse came back with its marker
C18_Witness ==
    /\ Converted /\ argValue = PyStr(<<MARKER, "a">>)
    /\ converted.value = <<MARKER, "a">>

----------------------------------------------------------------------------
(* C19: is_timestamp_column is true exactly when the upper-cased column    *)
(* name has at least one keyword of the list as a substring, whatever the  *)
(* case of the name and whatever the declared type: 'ZLASTMODIFIED' and    *)
(* 'created_at' are timestamp columns, 'ZTEXT' is not.                     *)
KeywordAt(name, k, off) ==
    /\ off + Len(k) <= Len(name)
    /\ \A j \in 1..Len(k) : UpperChar(name[off + j]) = k[j]

HasKeyword(name) ==
    \E k \in Range(TimestampKeywords) : \E off \in 0..Len(name) : KeywordAt(name, k, off)

C19_ClassifyByKeyword ==
    classified.done =>
        /\ classified.result = HasKeyword(column.name)
        /\ column.name = <<"Z", "L", "A", "S", "T", "M", "O", "D", "I", "F", "I", "E", "D">> => classified.result
        /\ column.name = <<"c", "r", "e", "a", "t", "e", "d", "_", "a", "t">> => classified.result
        /\ column.name = <<"Z", "T", "E", "X", "T">> => ~classified.result

\* a lower-case name with a keyword, declared TEXT, is a timestamp column
C19_Witness ==
    /\ classified.done /\ classified.result
    /\ column.name = <<"c", "r", "e", "a", "t", "e", "d", "_", "a", "t">> /\ column.type = "TEXT"

----------------------------------------------------------------------------
(* C20: check_deleted_messages returns exactly the triples (timestamp,     *)
(* text, row id) of the rows whose Z_OPT is 1 and whose ZTEXT is not NULL, *)
(* no other and none missing, ordered by ZTIMESTAMP descending.            *)
MarkedDeleted ==
    {i \in 1..Len(msgRows) : msgRows[i].Z_OPT = <<1>> /\ msgRows[i].ZTEXT # <<>>}

\* the timestamp a is below the timestamp b; NULL is below every value
Below(a, b) == b # <<>> /\ (a = <<>> \/ a[1] < b[1])

C20_DeletedExactlyAndOrdered ==
    (deleted.done /\ msgTable = "messages") =>
        /\ Range(deleted.rows) =
              {<<msgRows[i].ZTIMESTAMP, msgRows[i].ZTEXT, msgRows[i].Z_PK>> :
                  i \in MarkedDeleted}
        /\ Len(deleted.rows) = Cardinality(MarkedDeleted)
        /\ \A i, j \in 1..Len(deleted.rows) :
              i < j => ~Below(deleted.rows[i][1], deleted.rows[j][1])

\* two deleted messages came back latest first, a third row was left out
C20_Witness ==
    /\ deleted.done /\ msgTable = "messages"
    /\ Len(msgRows) = 3 /\ Len(deleted.rows) = 2
    /\ deleted.rows[1][1] = <<20>> /\ deleted.rows[2][1] = <<10>>
    /\ deleted.rows[1][3] = <<3>>

(***************************************************************************)
(* C21: searching a table that lacks the Z_OPT, ZTEXT or Z_PK column fails *)
(* with a QueryError, so that it can be told from a table that has the     *)
(* columns and holds no deleted message, whose search returns the empty    *)
(* list without failing.                                                   *)
(***************************************************************************)
C21_MissingColumnsFail ==
    /\ (deleted.done /\ msgTable = "other") => deleted.raised = "QueryError"
    /\ (deleted.done /\ msgTable = "messages" /\ MarkedDeleted = {}) =>
           (deleted.raised = "" /\ deleted.rows = <<>>)

----------------------------------------------------------------------------
(* Vocabulary of the properties of the viewer's window *)

\* what the fetch of the selected table gives on the storage
Loaded == GetTableContentsWithWal(view.table, view.limit)

\* the rows of the main table among the rows on display
MainShown == Len(FetchMain(view.table, view.limit).rows)

\* the tree shows the selected table
Current ==
    /\ view.table \in dbTables
    /\ view.columns = Loaded.columns
    /\ Len(view.items) = Len(Loaded.rows)

Tagged == {i \in 1..Len(view.items) : "wal_record" \in view.items[i].tags}

(***************************************************************************)
(* C22: the row count is the total of the main table, whatever the row     *)
(* limit and the rows of the WAL source: for a selected table of m main    *)
(* rows the viewer holds total_rows = m, and it reports a truncation       *)
(* exactly when m exceeds the row limit used for the fetch.                *)
(***************************************************************************)
C22_CountIsMainTotal ==
    view.table \in dbTables =>
        /\ view.total_rows = Len(mainRows)
        /\ view.status.total # <<>> <=>
              (view.limit # NoLimit /\ Len(mainRows) > view.limit[1])
        /\ view.status.total # <<>> => view.status.total = <<Len(mainRows)>>

\* a table above the threshold was fetched under a limit, with rows in the
\* WAL source, and the truncation was reported with the main table's total
C22_Witness ==
    /\ view.table \in dbTables
    /\ view.limit = <<THRESHOLD>>
    /\ Len(mainRows) > THRESHOLD
    /\ walRows # <<>>
    /\ view.status.total = <<Len(mainRows)>>

(***************************************************************************)
(* C28: a row on display carries the tag 'wal_record' if and only if it is *)
(* one of the rows taken from the WAL source alone, for a table with a     *)
(* primary key as for one without, and the WAL count of the status line    *)
(* is the number of rows so tagged.                                        *)
(***************************************************************************)
C28_WalRowsTagged ==
    Current =>
        /\ Tagged = {i \in 1..Len(view.items) : i > MainShown}
        /\ view.status.wal = Cardinality(Tagged)

(***************************************************************************)
(* C29: after any selections and time format changes, every timestamp cell *)
(* that is not NULL shows convert_timestamp of the value stored for it     *)
(* under the format kept for its column in time_display_modes, "JST" when  *)
(* none is kept.                                                           *)
(***************************************************************************)
C29_CellsShowStoredValue ==
    Current =>
        \A i \in 1..Len(view.items), j \in 1..Len(view.columns) :
            (TimeColumn(view.columns[j]) /\ Loaded.rows[i][j] # PyNone) =>
                Returned(view.items[i].values[j]) =
                    ConvertTimestamp(Loaded.rows[i][j],
                                     Mode(view.time_display_modes, view.columns[j]),
                                     sysPlatform)

(***************************************************************************)
(* C30: once on_table_select has returned for a table, the rows on         *)
(* display, the column list, wal_records and original_values_cache all     *)
(* describe that table, also when the table is empty or its load failed:   *)
(* the rows of the table shown before never stay with the new table's      *)
(* wal_records and a cleared cache.                                        *)
(***************************************************************************)
C30_ViewDescribesSelection ==
    view.table # "" =>
        /\ view.columns = Loaded.columns
        /\ Len(view.items) = Len(Loaded.rows)
        /\ view.wal_records = Loaded.wal_only_keys
        /\ view.original_values_cache =
              UNION {{<<i>> \o o : o \in Originals(Loaded.columns, Loaded.rows[i])} :
                       i \in 1..Len(Loaded.rows)}

(***************************************************************************)
(* C23: the viewer only reads.  No operation (connecting, listing the      *)
(* tables, reading a schema, counting, fetching with or without the WAL    *)
(* source, searching deleted messages, exporting) changes the contents of  *)
(* the main file or of the WAL file.                                       *)
(***************************************************************************)
C23_FilesUnchanged ==
    [][disk'.main = disk.main /\ disk'.wal = disk.wal]_vars

(***************************************************************************)
(* C24: the calls share no mutable state.  When two reconciling calls, on  *)
(* the same table or on different ones, take their steps (schema read,     *)
(* main fetch, WAL fetch, merge) in any order, each returns what it        *)
(* returns when it runs alone.                                             *)
(***************************************************************************)
C24_InterleavedAsAlone ==
    \A p \in 1..2 :
        run.calls[p].pc = "done" =>
            run.calls[p].out =
                GetTableContentsWithWal(run.calls[p].table, run.calls[p].limit)

\* two calls on the same table under different limits took steps in
\* between each other's, and both have returned rows
C24_Witness ==
    /\ run.mixed
    /\ run.calls[1].pc = "done" /\ run.calls[2].pc = "done"
    /\ run.calls[1].table = run.calls[2].table
    /\ run.calls[1].limit = <<1>> /\ run.calls[2].limit = NoLimit
    /\ Len(run.calls[1].db_data) < Len(run.calls[2].db_data)
    /\ Len(run.calls[1].out.rows) < Len(run.calls[2].out.rows)
    /\ run.calls[1].out.wal_only_keys # NoKeys

(***************************************************************************)
(* C25: get_table_info returns every column of the named table in declared *)
(* ordinal order, and for a table that does not exist the read fails with  *)
(* SchemaError.                                                            *)
(***************************************************************************)
C25_SchemaRead ==
    (ret.op = "table_info" /\ dbFile = "valid") =>
        IF ret.table \in dbTables
        THEN /\ ret.raised = ""
             /\ ret.columns = Schema(ret.table)
             /\ \A i \in 1..Len(ret.columns) : ret.columns[i].cid = i - 1
        ELSE ret.raised = "SchemaError"

(***************************************************************************)
(* C26: with a row limit smaller than the main table, wal_only_keys never  *)
(* contains the key tuple of a row of the main table: a WAL row whose key  *)
(* is that of a main row beyond the fetched prefix is not marked WAL-only. *)
(***************************************************************************)
C26_NoMainKeyBeyondLimit ==
    (Reconciled /\ HasPk(ret.table) /\ Limited /\ ret.limit[1] < Len(mainRows)) =>
        ret.wal_only_keys.keys \cap MainKeys = {}

(***************************************************************************)
(* C27: the merge only appends.  The result starts with the fetched main   *)
(* rows, unmodified and in fetch order; what follows are rows of the WAL   *)
(* source in WAL fetch order, and every row marked WAL-only lies after all *)
(* main rows.                                                              *)
(***************************************************************************)
Appended == SubSeq(ret.rows, NFetched + 1, Len(ret.rows))

\* s is t with some elements left out: the order of t is kept
IsSubsequence(s, t) ==
    \E f \in [1..Len(s) -> 1..Len(t)] :
        /\ \A i, j \in 1..Len(s) : i < j => f[i] < f[j]
        /\ \A i \in 1..Len(s) : s[i] = t[f[i]]

C27_MergeOnlyAppends ==
    Reconciled =>
        /\ Len(ret.rows) >= NFetched
        /\ SubSeq(ret.rows, 1, NFetched) = Fetched
        /\ IsSubsequence(Appended, WalSource)
        /\ \A i \in 1..NFetched :
              /\ PkTuple(ret.table, ret.rows[i]) \notin ret.wal_only_keys.keys
              /\ (i - 1) \notin ret.wal_only_keys.idx

\* two main rows followed by the one new row of a WAL source of two rows
C27_Witness ==
    /\ Reconciled /\ HasPk(ret.table)
    /\ NFetched = 2 /\ Len(WalSource) = 2
    /\ Len(ret.rows) = 3
    /\ ret.rows[3] = WalSource[2]
    /\ ret.rows[1] # ret.rows[2]

============================================================================
